---- MODULE Spec2Model ----
(***************************************************************************)
(* 0x45 command line client: configuration resolution (viper), the command *)
(* handlers and the API clients, for the four builds of the program that   *)
(* the repository holds:                                                   *)
(*   "pkgclient" : src/main.go with the pkg/client API client              *)
(*   "handlers"  : the package-main build with handle* functions and the   *)
(*                 doRequest client (src/client.go)                        *)
(*   "paste69"   : src/cmd/0x45/main.go, internal/handlers and the         *)
(*                 pkg/api/paste69 client behind internal/client           *)
(*   "viperclient": the cmd main with closure handlers and the client that *)
(*                 reads viper on every request                            *)
(* One behaviour is a sequence of process invocations of one build that    *)
(* share the configuration file.                                           *)
(***************************************************************************)
EXTENDS Integers, Sequences, FiniteSets, TLC

Variants == {"pkgclient", "handlers", "paste69", "viperclient"}

\* A value that is absent (Go nil / key not present / flag not given).
Nil == "<nil>"

Keys == {"api_key", "api_url", "default_expiry"}

DefaultURL == "https://0x45.st"

-----------------------------------------------------------------------------
(* time.ParseDuration, on strings given as character sequences.            *)

Digits == {"0", "1", "2", "3", "4", "5", "6", "7", "8", "9"}

DigitVal(c) ==
    CASE c = "0" -> 0 [] c = "1" -> 1 [] c = "2" -> 2 [] c = "3" -> 3
      [] c = "4" -> 4 [] c = "5" -> 5 [] c = "6" -> 6 [] c = "7" -> 7
      [] c = "8" -> 8 [] c = "9" -> 9

\* The strings whose characters the program looks at (expires values and
\* file paths), with their characters.
Chars(s) ==
    CASE s = "" -> << >>
      [] s = "dir/a.txt" -> <<"d", "i", "r", "/", "a", ".", "t", "x", "t">>
      [] s = "a.txt" -> <<"a", ".", "t", "x", "t">>
      [] s = "paste.txt" -> <<"p", "a", "s", "t", "e", ".", "t", "x", "t">>
      [] s = ".txt" -> <<".", "t", "x", "t">>
      [] s = "txt" -> <<"t", "x", "t">>
      [] s = "notes" -> <<"n", "o", "t", "e", "s">>
      [] s = "notes." -> <<"n", "o", "t", "e", "s", ".">>
      [] s = "." -> <<".">>
      [] s = "gone.md" -> <<"g", "o", "n", "e", ".", "m", "d">>
      [] s = ".md" -> <<".", "m", "d">>
      [] s = "md" -> <<"m", "d">>
      [] s = "24h" -> <<"2", "4", "h">>
      [] s = "7d" -> <<"7", "d">>
      [] s = "129d" -> <<"1", "2", "9", "d">>
      [] s = "3072h" -> <<"3", "0", "7", "2", "h">>
      [] s = "3096h" -> <<"3", "0", "9", "6", "h">>
      [] s = "17520h" -> <<"1", "7", "5", "2", "0", "h">>
      [] s = "17521h" -> <<"1", "7", "5", "2", "1", "h">>
      [] s = "3072h1ms" -> <<"3", "0", "7", "2", "h", "1", "m", "s">>
      [] s = "soon" -> <<"s", "o", "o", "n">>
      [] s = "0" -> <<"0">>
      [] s = "-1h" -> <<"-", "1", "h">>
      [] s = "90" -> <<"9", "0">>

KnownStrings ==
    {"", "dir/a.txt", "a.txt", "paste.txt", ".txt", "txt", "notes", "notes.",
     ".", "gone.md", ".md", "md",
     "24h", "7d", "129d", "3072h", "3096h", "17520h", "17521h", "3072h1ms",
     "soon", "0", "-1h", "90"}

\* The string with the given characters.
Str(cs) == CHOOSE s \in KnownStrings : Chars(s) = cs

\* filepath.Base: the last element of the path.
RECURSIVE lastSlash(_, _)
lastSlash(cs, i) == IF i = 0 \/ cs[i] = "/" THEN i ELSE lastSlash(cs, i - 1)

Base(path) ==
    LET cs == Chars(path)
    IN  Str(SubSeq(cs, lastSlash(cs, Len(cs)) + 1, Len(cs)))

\* filepath.Ext: the suffix from the last dot of the last element, or "".
RECURSIVE extStart(_, _)
extStart(cs, i) ==
    IF i = 0 \/ cs[i] = "/" THEN 0
    ELSE IF cs[i] = "." THEN i
    ELSE extStart(cs, i - 1)

Ext(path) ==
    LET cs == Chars(path)
        i == extStart(cs, Len(cs))
    IN  IF i = 0 THEN "" ELSE Str(SubSeq(cs, i, Len(cs)))

\* s[1:]
DropFirst(s) == Str(Tail(Chars(s)))

\* A duration is whole seconds plus nanoseconds below one second.
NanosPerSecond == 1000 * 1000 * 1000

Dur(sec, ns) == [sec |-> sec, ns |-> ns]

DurAdd(a, b) ==
    LET n == a.ns + b.ns
    IN  Dur(a.sec + b.sec + (n \div NanosPerSecond), n % NanosPerSecond)

DurGreater(a, b) == a.sec > b.sec \/ (a.sec = b.sec /\ a.ns > b.ns)

\* unitMap: seconds per unit, or for the units below a second how many make one.
UnitNames == {<<"n", "s">>, <<"u", "s">>, <<"m", "s">>, <<"s">>, <<"m">>, <<"h">>}

unitSeconds(u) ==
    CASE u = <<"s">> -> 1 [] u = <<"m">> -> 60 [] u = <<"h">> -> 3600 [] OTHER -> 0

unitPerSecond(u) ==
    CASE u = <<"n", "s">> -> 1000000000 [] u = <<"u", "s">> -> 1000000
      [] u = <<"m", "s">> -> 1000 [] OTHER -> 1

unitTimes(v, u) ==
    IF unitSeconds(u) > 0
    THEN Dur(v * unitSeconds(u), 0)
    ELSE Dur(v \div unitPerSecond(u),
             (v % unitPerSecond(u)) * (NanosPerSecond \div unitPerSecond(u)))

\* leadingInt: the value of the leading digits of s and how many there are.
RECURSIVE leadingInt(_, _, _)
leadingInt(s, i, acc) ==
    IF i <= Len(s) /\ s[i] \in Digits
    THEN leadingInt(s, i + 1, acc * 10 + DigitVal(s[i]))
    ELSE [v |-> acc, next |-> i]

\* The index after the unit that starts at i (a unit runs up to the next digit).
RECURSIVE unitEnd(_, _)
unitEnd(s, i) ==
    IF i <= Len(s) /\ s[i] \notin Digits THEN unitEnd(s, i + 1) ELSE i

DurationError == [err |-> TRUE, d |-> Dur(0, 0)]

\* The loop of ParseDuration: one number and unit per round.
RECURSIVE parseTerms(_, _, _)
parseTerms(s, i, d) ==
    IF i > Len(s) THEN [err |-> FALSE, d |-> d]
    ELSE IF s[i] \notin Digits THEN DurationError
    ELSE LET n == leadingInt(s, i, 0)
             e == unitEnd(s, n.next)
             u == SubSeq(s, n.next, e - 1)
         IN  IF e = n.next THEN DurationError          \* missing unit
             ELSE IF u \notin UnitNames THEN DurationError  \* unknown unit
             ELSE parseTerms(s, e, DurAdd(d, unitTimes(n.v, u)))

ParseDuration(str) ==
    LET s0 == Chars(str)
        signed == Len(s0) > 0 /\ s0[1] \in {"-", "+"}
        neg == signed /\ s0[1] = "-"
        s == IF signed THEN Tail(s0) ELSE s0
        r == parseTerms(s, 1, Dur(0, 0))
    IN  IF s = <<"0">> THEN [err |-> FALSE, neg |-> FALSE, d |-> Dur(0, 0)]
        ELSE IF s = << >> THEN [err |-> TRUE, neg |-> FALSE, d |-> Dur(0, 0)]
        ELSE [err |-> r.err, neg |-> neg /\ ~r.err, d |-> r.d]

SecondsPerDay == 24 * 3600
MaxDaysWithKey == 730
MaxDaysNoKey == 128

\* duration > time.Duration(maxDays) * 24 * time.Hour
ExceedsDays(p, maxDays) ==
    ~p.neg /\ DurGreater(p.d, Dur(maxDays * SecondsPerDay, 0))

-----------------------------------------------------------------------------
(* State.                                                                  *)

VARIABLES
    variant,   \* which build of the program runs
    file,      \* the configuration file: [exists, data]
    pc,        \* "idle", "sent" (a request is in flight), "done"
    inv,       \* the command line and environment of the running invocation
    viper,     \* the viper instance of the running process
    client,    \* the API client that issues the request: [BaseURL, APIKey]
    reqs,      \* the HTTP requests handed to the HTTP transport in this invocation
    outcome,   \* what the command returned and printed
    procs      \* the processes of a concurrent run: [pc, inv, viper, outcome] each

vars == <<variant, file, pc, inv, viper, client, reqs, outcome, procs>>

NoValues == [k \in Keys |-> Nil]

-----------------------------------------------------------------------------
(* viper: resolution of a key.                                             *)

\* The builds that define and bind the --api-key flag (viper.BindPFlag).
HasKeyFlag(v) == v \in {"pkgclient", "handlers"}

\* The builds that bind OX45_API_KEY by name (viper.BindEnv); the others
\* look every key up in the environment (SetEnvPrefix, AutomaticEnv).
HasBindEnv(v) == v \in {"pkgclient", "handlers"}

\* viper.SetDefault calls of initConfig.
Defaults(v) ==
    CASE v = "pkgclient" ->
            [NoValues EXCEPT !["api_url"] = DefaultURL, !["default_expiry"] = "7d"]
      [] v = "handlers" -> [NoValues EXCEPT !["api_url"] = DefaultURL]
      [] v = "paste69" -> [NoValues EXCEPT !["api_url"] = DefaultURL]
      [] v = "viperclient" -> NoValues

\* viper before initConfig ran and before the command line was parsed: the
\* state in which package initialisers and command constructors read it.
UnloadedViper ==
    [override |-> NoValues, flag |-> Nil, env |-> Nil, config |-> NoValues,
     defaults |-> NoValues, flagBound |-> FALSE, envBound |-> FALSE,
     automaticEnv |-> FALSE]

\* getEnv: a variable that is set to the empty string counts as not set.
envValue(V, key) ==
    IF key = "api_key" /\ (V.envBound \/ V.automaticEnv) /\ V.env # Nil /\ V.env # ""
    THEN V.env ELSE Nil

\* A bound flag is consulted only when it was given on the command line.
flagValue(V, key) ==
    IF key = "api_key" /\ V.flagBound /\ V.flag # Nil THEN V.flag ELSE Nil

\* The sources of find with the environment consulted before the flag.
find_envFirst(V, key, flagDefault) ==
    IF V.override[key] # Nil THEN V.override[key]
    ELSE IF envValue(V, key) # Nil THEN envValue(V, key)
    ELSE IF flagValue(V, key) # Nil THEN flagValue(V, key)
    ELSE IF V.config[key] # Nil THEN V.config[key]
    ELSE IF V.defaults[key] # Nil THEN V.defaults[key]
    ELSE IF flagDefault /\ key = "api_key" /\ V.flagBound THEN ""
    ELSE Nil

\* viper's find: Set, flag, environment, file, default, and last the default
\* value of a bound flag.
find(V, key, flagDefault) ==
    IF V.override[key] # Nil THEN V.override[key]
    ELSE IF flagValue(V, key) # Nil THEN flagValue(V, key)
    ELSE IF envValue(V, key) # Nil THEN envValue(V, key)
    ELSE IF V.config[key] # Nil THEN V.config[key]
    ELSE IF V.defaults[key] # Nil THEN V.defaults[key]
    ELSE IF flagDefault /\ key = "api_key" /\ V.flagBound THEN ""
    ELSE Nil

Get(V, key) == find(V, key, TRUE)

IsSet(V, key) == find(V, key, FALSE) # Nil

GetString(V, key) == IF Get(V, key) = Nil THEN "" ELSE Get(V, key)

\* viper.Set: a nil value leaves the key to the other sources.
Set(V, key, value) == [V EXCEPT !.override[key] = value]

\* AllKeys: the keys of Set, of bound flags, of bound environment variables,
\* of the file and of the defaults.
AllKeys(V) ==
    {k \in Keys :
        \/ V.override[k] # Nil
        \/ k = "api_key" /\ (V.flagBound \/ V.envBound)
        \/ V.config[k] # Nil
        \/ V.defaults[k] # Nil}

\* AllSettings: the resolved value of every key of AllKeys that has one.
AllSettings(V) ==
    [k \in Keys |-> IF k \in AllKeys(V) THEN Get(V, k) ELSE Nil]

-----------------------------------------------------------------------------
(* The configuration file.                                                 *)

NoFile == [exists |-> FALSE, data |-> NoValues]

\* The file a write is directed to is known: --config names it, or the
\* search of the home directory finds it.
configFileKnown(i, f) == i.cfgFile \/ f.exists

\* viper.WriteConfig: writes AllSettings to the known file, creating or
\* truncating it; fails when no file is known.
WriteConfig(V, i, f) ==
    IF configFileKnown(i, f)
    THEN [err |-> "none", file |-> [exists |-> TRUE, data |-> AllSettings(V)]]
    ELSE [err |-> "config-file-not-found", file |-> f]

\* viper.SafeWriteConfig: writes to <home>/.0x45.yaml unless it exists; needs
\* a configured search path, which SetConfigFile does not give.
SafeWriteConfig(V, i, f) ==
    IF i.cfgFile THEN [err |-> "missing-config-path", file |-> f]
    ELSE IF f.exists THEN [err |-> "config-file-exists", file |-> f]
    ELSE [err |-> "none", file |-> [exists |-> TRUE, data |-> AllSettings(V)]]

\* viper.ReadInConfig: the error it returns.
ReadInConfig(i, f) ==
    IF f.exists THEN "none"
    ELSE IF i.cfgFile THEN "path-error"
    ELSE "config-file-not-found"

\* initConfig of each build, after cobra parsed the command line.  Only the
\* builds with cobra.CheckErr end the process on an unreadable --config file.
initConfig(v, i, f) ==
    LET readErr == ReadInConfig(i, f)
        cfg == IF readErr = "none" THEN f.data ELSE NoValues
    IN  [fatal |-> readErr = "path-error" /\ v \in {"pkgclient", "handlers"},
         V |-> [override |-> NoValues,
                flag |-> i.flagKey,
                env |-> i.envKey,
                config |-> cfg,
                defaults |-> Defaults(v),
                flagBound |-> HasKeyFlag(v),
                envBound |-> HasBindEnv(v),
                automaticEnv |-> ~HasBindEnv(v)]]

\* validateAPIKey
validateAPIKey_never(V) == TRUE

validateAPIKey(V) == GetString(V, "api_key") # ""

\* The builds whose root command runs validateAPIKey before every command.
HasPersistentPreRun(v) == v \in {"paste69", "viperclient"}

-----------------------------------------------------------------------------
(* HTTP requests and responses.                                            *)

AltURL == "https://paste.example/api"

\* url.Parse of the base URLs in use: scheme and host, and the path.
urlParse(u) ==
    CASE u = DefaultURL -> [origin |-> DefaultURL, path |-> ""]
      [] u = AltURL -> [origin |-> "https://paste.example", path |-> "/api"]
      [] OTHER -> [origin |-> "", path |-> ""]

\* strconv.Itoa and fmt.Sprintf("%d") of the page and limit values in use.
Itoa(n) ==
    CASE n = 0 -> "0" [] n = 1 -> "1" [] n = 2 -> "2" [] n = 10 -> "10"
      [] n = 11 -> "11" [] n = -1 -> "-1"

ParamNames ==
    {"expires", "private", "filename", "ext", "page", "limit", "per_page",
     "sort", "url", "title", "email", "name"}

NoParams == [n \in ParamNames |-> Nil]

\* A field that is sent only when its value is not empty.
Opt(value) == IF value = "" THEN Nil ELSE value

OptTrue(b) == IF b THEN "true" ELSE Nil

OptPositive(n) == IF n > 0 THEN Itoa(n) ELSE Nil

NoAuth == [scheme |-> Nil, token |-> Nil]

Bearer(key) == [scheme |-> "Bearer", token |-> key]

\* if c.APIKey != "" { req.Header.Set("Authorization", "Bearer "+c.APIKey) }
AuthHeader(key) == IF key # "" THEN Bearer(key) ELSE NoAuth

\* The request a client hands to the transport.  The path is the list of the
\* pieces that follow scheme and host.
Request(method, origin, path, query, bodyKind, fields, auth, xkey) ==
    [method |-> method, origin |-> origin, path |-> path, query |-> query,
     bodyKind |-> bodyKind, fields |-> fields, auth |-> auth, xkey |-> xkey]

\* base + path, as the clients that concatenate strings form the URL.
Concat(method, base, pieces, query, bodyKind, fields, auth, xkey) ==
    Request(method, urlParse(base).origin, <<urlParse(base).path>> \o pieces,
            query, bodyKind, fields, auth, xkey)

Statuses == {200, 201, 401}

BodyOK == "{\"success\":true}"
BodyFail == "{\"success\":false,\"error\":\"denied\"}"
BodyGarbage == "<html>Bad Gateway</html>"

Bodies == {BodyOK, BodyFail, BodyGarbage}

\* The data of a list response: the number of items returned, and the total
\* and limit fields.
MaxTotal == 2

MaxLimit == 2

NoList == [items |-> 0, total |-> 0, limit |-> 0]

ListDatas == [items : {0, 1}, total : 0..MaxTotal, limit : 0..MaxLimit]

NoResponse == [transport |-> FALSE, status |-> 0, body |-> "", list |-> NoList]

TransportError == [transport |-> TRUE, status |-> 0, body |-> "", list |-> NoList]

\* The list commands are the ones that send GET.
IsListRequest(req) == req.method = "GET"

\* What the transport can answer: a URL without scheme and host never leaves
\* the process (unsupported protocol scheme).
Responses(req) ==
    IF req.origin = "" THEN {TransportError}
    ELSE {TransportError}
         \cup {[transport |-> FALSE, status |-> st, body |-> b, list |-> NoList] :
                 st \in Statuses, b \in Bodies}
         \cup IF IsListRequest(req)
              THEN {[transport |-> FALSE, status |-> 200, body |-> BodyOK, list |-> d] :
                      d \in ListDatas}
              ELSE {}

NoResult == [decoded |-> FALSE, success |-> FALSE]

\* json.NewDecoder(resp.Body).Decode(&result) for the bodies in use.
Decode(body) ==
    CASE body = BodyOK -> [err |-> FALSE, result |-> [decoded |-> TRUE, success |-> TRUE]]
      [] body = BodyFail -> [err |-> FALSE, result |-> [decoded |-> TRUE, success |-> FALSE]]
      [] OTHER -> [err |-> TRUE, result |-> NoResult]

NoErr == [kind |-> "none", code |-> 0, body |-> Nil]

Err(kind) == [kind |-> kind, code |-> 0, body |-> Nil]

Returned(err, result) == [err |-> err, result |-> result]

\* The tail of every method of the pkg/client and package-main clients: the
\* status check with the body in the error, then the decode when a result
\* is expected.
doRequest(resp, decode) ==
    IF resp.transport THEN Returned(Err("transport"), NoResult)
    ELSE IF resp.status # 200
    THEN Returned([kind |-> "status", code |-> resp.status, body |-> resp.body], NoResult)
    ELSE IF decode /\ Decode(resp.body).err THEN Returned(Err("decode"), NoResult)
    ELSE IF decode THEN Returned(NoErr, Decode(resp.body).result)
    ELSE Returned(NoErr, NoResult)

\* The tail of every method of the paste69 client: the status error names the
\* code only.
paste69Response(resp) ==
    IF resp.transport THEN Returned(Err("transport"), NoResult)
    ELSE IF resp.status # 200
    THEN Returned([kind |-> "status", code |-> resp.status, body |-> Nil], NoResult)
    ELSE IF Decode(resp.body).err THEN Returned(Err("decode"), NoResult)
    ELSE Returned(NoErr, Decode(resp.body).result)

\* The tail of every function of the client that reads viper per request:
\* the body is decoded whatever the status.
viperResponse(resp) ==
    IF resp.transport THEN Returned(Err("transport"), NoResult)
    ELSE IF Decode(resp.body).err THEN Returned(Err("decode"), NoResult)
    ELSE Returned(NoErr, Decode(resp.body).result)

-----------------------------------------------------------------------------
(* The API clients: the request each method builds.                        *)

NoClient == [BaseURL |-> "", APIKey |-> ""]

New(baseURL, apiKey) == [BaseURL |-> baseURL, APIKey |-> apiKey]

\* pkg/client
pkg_Upload(c, opts) ==
    Concat("POST", c.BaseURL, << >>, NoParams, "multipart",
           [NoParams EXCEPT !["filename"] = Base(opts.Filename),
                            !["expires"] = Opt(opts.Expires),
                            !["private"] = OptTrue(opts.Private)],
           AuthHeader(c.APIKey), Nil)

pkg_Shorten(c, opts) ==
    Concat("POST", c.BaseURL, <<"/url">>, NoParams, "json",
           [NoParams EXCEPT !["url"] = opts.URL,
                            !["expires"] = Opt(opts.Expires),
                            !["title"] = Opt(opts.Title)],
           AuthHeader(c.APIKey), Nil)

pkg_List(c, opts) ==
    Concat("GET", c.BaseURL, <<"/urls">>,
           [NoParams EXCEPT !["page"] = OptPositive(opts.Page),
                            !["limit"] = OptPositive(opts.Limit),
                            !["sort"] = Opt(opts.Sort)],
           "none", NoParams, AuthHeader(c.APIKey), Nil)

pkg_Delete(c, deleteID) ==
    Concat("DELETE", c.BaseURL, <<"/", deleteID>>, NoParams, "none", NoParams,
           AuthHeader(c.APIKey), Nil)

pkg_RequestAPIKey(c, opts) ==
    Concat("POST", c.BaseURL, <<"/api-key">>, NoParams, "json",
           [NoParams EXCEPT !["email"] = opts.Email, !["name"] = opts.Name],
           NoAuth, Nil)

\* package main (client.go); its BaseUrl field is BaseURL here.
main_Upload(c, query) ==
    Concat("POST", c.BaseURL, << >>, query, "bytes", NoParams,
           AuthHeader(c.APIKey), Nil)

main_Shorten(c, opts) ==
    Concat("POST", c.BaseURL, <<"/url">>, NoParams, "json",
           [NoParams EXCEPT !["url"] = opts.Url,
                            !["expires"] = Opt(opts.Expires),
                            !["title"] = Opt(opts.Title)],
           AuthHeader(c.APIKey), Nil)

main_ListPastes(c, opts) ==
    Concat("GET", c.BaseURL, <<"/pastes">>,
           [NoParams EXCEPT !["page"] = OptPositive(opts.Page),
                            !["limit"] = OptPositive(opts.Limit),
                            !["sort"] = Opt(opts.Sort)],
           "none", NoParams, AuthHeader(c.APIKey), Nil)

main_ListUrls(c, opts) ==
    Concat("GET", c.BaseURL, <<"/urls">>,
           [NoParams EXCEPT !["page"] = OptPositive(opts.Page),
                            !["limit"] = OptPositive(opts.Limit),
                            !["sort"] = Opt(opts.Sort)],
           "none", NoParams, AuthHeader(c.APIKey), Nil)

main_Delete(c, deleteId) ==
    Concat("DELETE", c.BaseURL, <<"/", deleteId>>, NoParams, "none", NoParams,
           AuthHeader(c.APIKey), Nil)

main_RequestAPIKey(c, opts) ==
    Concat("POST", c.BaseURL, <<"/api-key">>, NoParams, "json",
           [NoParams EXCEPT !["email"] = opts.Email, !["name"] = opts.Name],
           AuthHeader(c.APIKey), Nil)

\* pkg/api/paste69: the key travels in X-API-Key, set whatever its value.
paste69_Upload(c, filePath, private, expires) ==
    Concat("POST", c.BaseURL, <<"/upload">>,
           [NoParams EXCEPT !["private"] = OptTrue(private),
                            !["expires"] = Opt(expires)],
           "stream", [NoParams EXCEPT !["filename"] = Base(filePath)],
           NoAuth, c.APIKey)

paste69_Shorten(c, targetURL, private, expires) ==
    Concat("POST", c.BaseURL, <<"/shorten">>,
           [NoParams EXCEPT !["private"] = OptTrue(private),
                            !["expires"] = Opt(expires)],
           "text", [NoParams EXCEPT !["url"] = targetURL],
           NoAuth, c.APIKey)

paste69_Delete(c, id) ==
    Concat("DELETE", c.BaseURL, <<"/delete/", id>>, NoParams, "none", NoParams,
           NoAuth, c.APIKey)

paste69_ListPastes(c, page, perPage) ==
    Concat("GET", c.BaseURL, <<"/pastes">>,
           [NoParams EXCEPT !["page"] = Itoa(page), !["per_page"] = Itoa(perPage)],
           "none", NoParams, NoAuth, c.APIKey)

paste69_ListURLs(c, page, perPage) ==
    Concat("GET", c.BaseURL, <<"/urls">>,
           [NoParams EXCEPT !["page"] = Itoa(page), !["per_page"] = Itoa(perPage)],
           "none", NoParams, NoAuth, c.APIKey)

\* internal/client.Initialize, run by the package's init function: the
\* client is built from viper as it is before main starts.
Initialize == New(GetString(UnloadedViper, "api_url"), GetString(UnloadedViper, "api_key"))

\* The client that reads viper on every request.
getBaseURL(V) == IF GetString(V, "api_url") = "" THEN DefaultURL ELSE GetString(V, "api_url")

getAPIKey(V) == GetString(V, "api_key")

\* makeRequest: u.Path = path replaces the path of the base URL.
makeRequest(V, method, pieces, query, bodyKind) ==
    Request(method, urlParse(getBaseURL(V)).origin, <<"">> \o pieces, query,
            bodyKind, NoParams, AuthHeader(getAPIKey(V)), Nil)

viper_UploadFile(V, filePath, private, expires) ==
    makeRequest(V, "POST", <<"/upload">>,
                [NoParams EXCEPT !["filename"] = Base(filePath),
                                 !["private"] = OptTrue(private),
                                 !["expires"] = Opt(expires)],
                "stream")

viper_ShortenURL(V, urlToShorten, private, expires) ==
    makeRequest(V, "POST", <<"/shorten">>,
                [NoParams EXCEPT !["url"] = urlToShorten,
                                 !["private"] = OptTrue(private),
                                 !["expires"] = Opt(expires)],
                "none")

viper_Delete(V, id) ==
    makeRequest(V, "DELETE", <<"/delete/", id>>, NoParams, "none")

viper_ListPastes(V, page, limit) ==
    makeRequest(V, "GET", <<"/pastes">>,
                [NoParams EXCEPT !["page"] = Itoa(page), !["limit"] = Itoa(limit)],
                "none")

viper_ListURLs(V, page, limit) ==
    makeRequest(V, "GET", <<"/urls">>,
                [NoParams EXCEPT !["page"] = Itoa(page), !["limit"] = Itoa(limit)],
                "none")

-----------------------------------------------------------------------------
(* Command lines.                                                          *)

\* The files of the working directory; "gone.md" does not exist.
ExistingFiles == {"dir/a.txt", "notes", "notes."}

FileExists(path) == path \in ExistingFiles

FlagKeys(v) == IF HasKeyFlag(v) THEN {Nil, "F"} ELSE {Nil}

\* OX45_API_KEY: not set, set to the empty string, set to a key.
EnvKeys == {Nil, "", "E"}

\* --expires: not given, or one of these values.
ExpiresInputs == {Nil, "24h", "7d", "129d", "3072h", "3096h", "17521h"}

ShortenExpiresInputs == {Nil, "24h", "soon", "17521h"}

\* The file argument of upload; the builds with ExactArgs(1) need one.
UploadArgs(v) ==
    CASE v = "pkgclient" -> {Nil, "dir/a.txt", "gone.md"}
      [] v = "handlers" -> {Nil, "dir/a.txt", "gone.md", "notes."}
      [] OTHER -> {"dir/a.txt", "gone.md"}

TargetURLs == {"https://example.com", "example"}

DeleteIds == {"abc123"}

Emails == {"", "me@example.org"}

Names == {"", "Me"}

\* --page and --limit (--per-page) of the list commands; <<1, 10>> are the
\* flag defaults.
ListPaging == {<<1, 10>>, <<0, 0>>, <<-1, -1>>, <<2, 11>>}

\* config set: the values given for each key.
SetValues(key) ==
    CASE key = "api_key" -> {"K1"}
      [] key = "api_url" -> {AltURL}
      [] key = "default_expiry" -> {"7d"}

KeyValues == {kv \in Keys \X {"K1", AltURL, "7d"} : kv[2] \in SetValues(kv[1])}

\* The commands each build has.
Commands(v) ==
    CASE v = "pkgclient" ->
            {"upload", "shorten", "list_pastes", "list_urls", "delete",
             "key_request", "config_set", "config_get"}
      [] v = "handlers" ->
            {"upload", "shorten", "list_pastes", "list_urls", "delete",
             "key_request", "config_set", "config_get", "config_unset"}
      [] OTHER ->
            {"upload", "shorten", "list_pastes", "list_urls", "delete",
             "config_set", "config_get"}

\* No process is running.
NoInv ==
    [cmd |-> Nil, cfgFile |-> FALSE, flagKey |-> Nil, envKey |-> Nil,
     arg |-> Nil, expires |-> Nil, private |-> FALSE, title |-> "",
     page |-> 1, limit |-> 10, sort |-> "created_at", email |-> "",
     name |-> "", key |-> Nil, value |-> Nil, filename |-> "", ext |-> ""]

\* A command with the flag defaults, and the key given by flag and
\* environment in every way.
Plain(v, cmd) ==
    {[NoInv EXCEPT !.cmd = cmd, !.flagKey = fk, !.envKey = ek,
                   !.sort = IF v \in {"pkgclient", "handlers"} THEN "created_at" ELSE ""] :
        fk \in FlagKeys(v), ek \in EnvKeys}

WithConfigFlag(invs) == {[i EXCEPT !.cfgFile = c] : i \in invs, c \in BOOLEAN}

Invocations(v, cmd) ==
    CASE cmd = "upload" ->
            {[i EXCEPT !.arg = a, !.expires = e, !.private = p] :
                i \in Plain(v, cmd), a \in UploadArgs(v), e \in ExpiresInputs,
                p \in BOOLEAN}
      [] cmd = "shorten" ->
            {[i EXCEPT !.arg = a, !.expires = e] :
                i \in Plain(v, cmd), a \in TargetURLs, e \in ShortenExpiresInputs}
      [] cmd = "delete" ->
            {[i EXCEPT !.arg = a] : i \in Plain(v, cmd), a \in DeleteIds}
      [] cmd \in {"list_pastes", "list_urls"} ->
            {[i EXCEPT !.page = pl[1], !.limit = pl[2]] :
                i \in Plain(v, cmd), pl \in ListPaging}
      [] cmd = "key_request" ->
            {[i EXCEPT !.email = e, !.name = n] :
                i \in Plain(v, cmd), e \in Emails, n \in Names}
      [] cmd = "config_set" ->
            WithConfigFlag({[i EXCEPT !.key = kv[1], !.value = kv[2]] :
                i \in Plain(v, cmd), kv \in KeyValues})
      [] cmd \in {"config_get", "config_unset"} ->
            WithConfigFlag({[i EXCEPT !.key = k] : i \in Plain(v, cmd), k \in Keys})
      [] OTHER -> Plain(v, cmd)

-----------------------------------------------------------------------------
(* Command handlers.  A handler runs up to the point where the request is  *)
(* handed to the transport, or to its end when it sends none.              *)

NoOutcome ==
    [err |-> NoErr, result |-> NoResult, printed |-> "", value |-> "",
     resp |-> NoResponse, pages |-> << >>]

Failed(err) == [NoOutcome EXCEPT !.err = err]

Printed(what, value) == [NoOutcome EXCEPT !.printed = what, !.value = value]

\* The process ended without a request.
Ends(V, c, f, oc) ==
    [pc |-> "done", viper |-> V, client |-> c, reqs |-> << >>, outcome |-> oc,
     file |-> f]

\* The request is in flight.
Sends(V, c, f, req) ==
    [pc |-> "sent", viper |-> V, client |-> c, reqs |-> <<req>>,
     outcome |-> NoOutcome, file |-> f]

\* The default of the --expires flag of upload and shorten is read from viper
\* when the command is constructed, before initConfig runs.
expiresFlag(i) ==
    IF i.expires = Nil THEN GetString(UnloadedViper, "default_expiry") ELSE i.expires

\* The --expires flag of the builds whose flag default is "".
expiresFlagPlain(i) == IF i.expires = Nil THEN "" ELSE i.expires

\* upload: a private upload needs an API key.
privateNeedsKey_never(private, V) == FALSE

privateNeedsKey(private, V) == private /\ ~validateAPIKey(V)

\* upload: the expiry must parse and stay below the cap of 730 days with an
\* API key and 128 days without.
expiryError(expires, V) ==
    LET duration == ParseDuration(expires)
        hasAPIKey == GetString(V, "api_key") # ""
        maxDays == IF hasAPIKey THEN MaxDaysWithKey ELSE MaxDaysNoKey
    IN  IF expires = "" THEN "none"
        ELSE IF duration.err THEN "invalid-expiry"
        ELSE IF ExceedsDays(duration, maxDays) THEN "expiry-cap"
        ELSE "none"

\* src/main.go, upload
pkg_upload(i, V, f) ==
    LET expires == expiresFlag(i)
        c == New(GetString(V, "api_url"), GetString(V, "api_key"))
        filename == IF i.arg # Nil THEN Base(i.arg) ELSE "paste.txt"
    IN  IF privateNeedsKey(i.private, V)
        THEN Ends(V, NoClient, f, Failed(Err("private-apikey")))
        ELSE IF expiryError(expires, V) # "none"
        THEN Ends(V, NoClient, f, Failed(Err(expiryError(expires, V))))
        ELSE IF i.arg # Nil /\ ~FileExists(i.arg)
        THEN Ends(V, c, f, Failed(Err("open-file")))
        ELSE Sends(V, c, f,
                   pkg_Upload(c, [Filename |-> filename, Expires |-> expires,
                                  Private |-> i.private]))

\* handleUpload: the query of the upload request.
uploadQuery(i, expires) ==
    LET fromArg ==
            [NoParams EXCEPT
                !["filename"] = IF i.filename = "" THEN Base(i.arg) ELSE Nil,
                !["ext"] = IF i.ext = "" /\ Ext(i.arg) # ""
                           THEN DropFirst(Ext(i.arg)) ELSE Nil]
        \* standard input holds text: no binary format is detected
        fromStdin ==
            [NoParams EXCEPT
                !["filename"] = IF i.filename = "" THEN "paste.txt" ELSE Nil,
                !["ext"] = IF i.ext = "" THEN "txt" ELSE Nil]
        q == IF i.arg # Nil THEN fromArg ELSE fromStdin
    IN  [q EXCEPT !["expires"] = Opt(expires),
                  !["private"] = OptTrue(i.private),
                  !["filename"] = IF i.filename # "" THEN i.filename ELSE q["filename"],
                  !["ext"] = IF i.ext # "" THEN i.ext ELSE q["ext"]]

handleUpload(i, V, f) ==
    LET expires == expiresFlag(i)
        c == New(GetString(V, "api_url"), GetString(V, "api_key"))
    IN  IF privateNeedsKey(i.private, V)
        THEN Ends(V, NoClient, f, Failed(Err("private-apikey")))
        ELSE IF expiryError(expires, V) # "none"
        THEN Ends(V, NoClient, f, Failed(Err(expiryError(expires, V))))
        ELSE IF i.arg # Nil /\ ~FileExists(i.arg)
        THEN Ends(V, c, f, Failed(Err("read-file")))
        ELSE Sends(V, c, f, main_Upload(c, uploadQuery(i, expires)))

\* internal/handlers Upload, with the client built at package initialisation
paste69_upload(i, V, f) ==
    IF ~FileExists(i.arg)
    THEN Ends(V, Initialize, f, Failed(Err("file-not-exist")))
    ELSE Sends(V, Initialize, f,
               paste69_Upload(Initialize, i.arg, i.private, expiresFlagPlain(i)))

\* The values the per-request client reads from viper.
viperClient(V) == New(getBaseURL(V), getAPIKey(V))

\* upload of the closure handlers
viper_upload(i, V, f) ==
    IF ~FileExists(i.arg)
    THEN Ends(V, NoClient, f, Failed(Err("open-file")))
    ELSE Sends(V, viperClient(V), f,
               viper_UploadFile(V, i.arg, i.private, expiresFlagPlain(i)))


\* The handlers of the builds without a pre-run check start with
\* validateAPIKey and build the client from viper.
keyed(i, V, f, req) ==
    IF ~validateAPIKey(V) THEN Ends(V, NoClient, f, Failed(Err("apikey")))
    ELSE Sends(V, New(GetString(V, "api_url"), GetString(V, "api_key")), f, req)

viperKeyClient(V) == New(GetString(V, "api_url"), GetString(V, "api_key"))

pkg_shorten(i, V, f) ==
    keyed(i, V, f, pkg_Shorten(viperKeyClient(V),
                               [URL |-> i.arg, Expires |-> expiresFlag(i), Title |-> i.title]))

handleShorten(i, V, f) ==
    keyed(i, V, f, main_Shorten(viperKeyClient(V),
                                [Url |-> i.arg, Expires |-> expiresFlag(i), Title |-> i.title]))

ListOptions(i) == [Limit |-> i.limit, Page |-> i.page, Sort |-> i.sort]

\* list links and list pastes of src/main.go: both call Client.List.
pkg_links(i, V, f) == keyed(i, V, f, pkg_List(viperKeyClient(V), ListOptions(i)))

pkg_pastes(i, V, f) == keyed(i, V, f, pkg_List(viperKeyClient(V), ListOptions(i)))

handleListUrls(i, V, f) == keyed(i, V, f, main_ListUrls(viperKeyClient(V), ListOptions(i)))

handleListPastes(i, V, f) == keyed(i, V, f, main_ListPastes(viperKeyClient(V), ListOptions(i)))

pkg_delete(i, V, f) == keyed(i, V, f, pkg_Delete(viperKeyClient(V), i.arg))

handleDelete(i, V, f) == keyed(i, V, f, main_Delete(viperKeyClient(V), i.arg))

\* key request: the client is built with an empty key.
pkg_keyRequest(i, V, f) ==
    IF i.email = "" \/ i.name = ""
    THEN Ends(V, NoClient, f, Failed(Err("email-and-name-required")))
    ELSE Sends(V, New(GetString(V, "api_url"), ""), f,
               pkg_RequestAPIKey(New(GetString(V, "api_url"), ""),
                                 [Email |-> i.email, Name |-> i.name]))

\* handleKeyRequest with the client built from the configured key.
handleKeyRequest_keyed(i, V, f) ==
    IF i.email = "" \/ i.name = ""
    THEN Ends(V, NoClient, f, Failed(Err("email-and-name-required")))
    ELSE Sends(V, viperKeyClient(V), f,
               main_RequestAPIKey(viperKeyClient(V),
                                  [Email |-> i.email, Name |-> i.name]))

handleKeyRequest(i, V, f) ==
    IF i.email = "" \/ i.name = ""
    THEN Ends(V, NoClient, f, Failed(Err("email-and-name-required")))
    ELSE Sends(V, New(GetString(V, "api_url"), ""), f,
               main_RequestAPIKey(New(GetString(V, "api_url"), ""),
                                  [Email |-> i.email, Name |-> i.name]))

\* internal/handlers
paste69_shorten(i, V, f) ==
    Sends(V, Initialize, f,
          paste69_Shorten(Initialize, i.arg, i.private, expiresFlagPlain(i)))

paste69_list(i, V, f) ==
    Sends(V, Initialize, f,
          IF i.cmd = "list_pastes"
          THEN paste69_ListPastes(Initialize, i.page, i.limit)
          ELSE paste69_ListURLs(Initialize, i.page, i.limit))

paste69_delete(i, V, f) == Sends(V, Initialize, f, paste69_Delete(Initialize, i.arg))

\* the closure handlers
viper_shorten(i, V, f) ==
    Sends(V, viperClient(V), f,
          viper_ShortenURL(V, i.arg, i.private, expiresFlagPlain(i)))

viper_list(i, V, f) ==
    Sends(V, viperClient(V), f,
          IF i.cmd = "list_pastes"
          THEN viper_ListPastes(V, i.page, i.limit)
          ELSE viper_ListURLs(V, i.page, i.limit))

viper_delete(i, V, f) == Sends(V, viperClient(V), f, viper_Delete(V, i.arg))

\* config set of src/main.go and handleConfigSet: Set, WriteConfig, and
\* SafeWriteConfig when that fails; cobra.CheckErr ends the process.
handleConfigSet(i, V, f) ==
    LET V1 == Set(V, i.key, i.value)
        w == WriteConfig(V1, i, f)
        sw == SafeWriteConfig(V1, i, f)
    IN  IF w.err = "none" THEN Ends(V1, NoClient, w.file, Printed("set", i.value))
        ELSE IF sw.err = "none" THEN Ends(V1, NoClient, sw.file, Printed("set", i.value))
        ELSE Ends(V1, NoClient, f, Failed(Err("write-config")))

\* config get of src/main.go and handleConfigGet
handleConfigGet(i, V, f) ==
    IF Get(V, i.key) = Nil THEN Ends(V, NoClient, f, Printed("not-found", ""))
    ELSE Ends(V, NoClient, f, Printed("value", Get(V, i.key)))

\* config unset without the IsSet check.
handleConfigUnset_unchecked(i, V, f) ==
    LET V1 == Set(V, i.key, Nil)
        w == WriteConfig(V1, i, f)
    IN  IF w.err # "none" THEN Ends(V1, NoClient, f, Failed(Err("write-config")))
        ELSE Ends(V1, NoClient, w.file, Printed("removed", ""))

\* config unset
handleConfigUnset(i, V, f) ==
    LET V1 == Set(V, i.key, Nil)
        w == WriteConfig(V1, i, f)
    IN  IF ~IsSet(V, i.key) THEN Ends(V, NoClient, f, Printed("not-found", ""))
        ELSE IF w.err # "none" THEN Ends(V1, NoClient, f, Failed(Err("write-config")))
        ELSE Ends(V1, NoClient, w.file, Printed("removed", ""))

\* config set of internal/handlers and of the closure handlers: the error of
\* WriteConfig without a known file is no os.IsNotExist error.
cmd_configSet(i, V, f) ==
    LET V1 == Set(V, i.key, i.value)
        w == WriteConfig(V1, i, f)
    IN  IF w.err = "none" THEN Ends(V1, NoClient, w.file, Printed("set", i.value))
        ELSE Ends(V1, NoClient, f, Failed(Err("write-config")))

\* config get of internal/handlers and of the closure handlers
cmd_configGet(i, V, f) ==
    IF GetString(V, i.key) = "" THEN Ends(V, NoClient, f, Printed("not-set", ""))
    ELSE Ends(V, NoClient, f, Printed("value", GetString(V, i.key)))

\* The handler each build registers for a command.
upload(v, i, V, f) ==
    CASE v = "pkgclient" -> pkg_upload(i, V, f)
      [] v = "handlers" -> handleUpload(i, V, f)
      [] v = "paste69" -> paste69_upload(i, V, f)
      [] v = "viperclient" -> viper_upload(i, V, f)

shorten(v, i, V, f) ==
    CASE v = "pkgclient" -> pkg_shorten(i, V, f)
      [] v = "handlers" -> handleShorten(i, V, f)
      [] v = "paste69" -> paste69_shorten(i, V, f)
      [] v = "viperclient" -> viper_shorten(i, V, f)

listPastes(v, i, V, f) ==
    CASE v = "pkgclient" -> pkg_pastes(i, V, f)
      [] v = "handlers" -> handleListPastes(i, V, f)
      [] v = "paste69" -> paste69_list(i, V, f)
      [] v = "viperclient" -> viper_list(i, V, f)

listUrls(v, i, V, f) ==
    CASE v = "pkgclient" -> pkg_links(i, V, f)
      [] v = "handlers" -> handleListUrls(i, V, f)
      [] v = "paste69" -> paste69_list(i, V, f)
      [] v = "viperclient" -> viper_list(i, V, f)

delete(v, i, V, f) ==
    CASE v = "pkgclient" -> pkg_delete(i, V, f)
      [] v = "handlers" -> handleDelete(i, V, f)
      [] v = "paste69" -> paste69_delete(i, V, f)
      [] v = "viperclient" -> viper_delete(i, V, f)

keyRequest(v, i, V, f) ==
    CASE v = "pkgclient" -> pkg_keyRequest(i, V, f)
      [] v = "handlers" -> handleKeyRequest(i, V, f)

configSet(v, i, V, f) ==
    CASE v \in {"pkgclient", "handlers"} -> handleConfigSet(i, V, f)
      [] v \in {"paste69", "viperclient"} -> cmd_configSet(i, V, f)

configGet(v, i, V, f) ==
    CASE v \in {"pkgclient", "handlers"} -> handleConfigGet(i, V, f)
      [] v \in {"paste69", "viperclient"} -> cmd_configGet(i, V, f)

\* One process up to its request or its end: cobra runs initConfig, then the
\* root command's PersistentPreRunE where the build has one, then the
\* command, whose effect is run.
Execute(v, i, f, run) ==
    LET init == initConfig(v, i, f)
        c0 == IF v = "paste69" THEN Initialize ELSE NoClient
    IN  IF init.fatal THEN Ends(init.V, c0, f, Failed(Err("read-config")))
        ELSE IF HasPersistentPreRun(v) /\ ~validateAPIKey(init.V)
        THEN Ends(init.V, c0, f, Failed(Err("apikey")))
        ELSE run

\* viper as the command finds it.
Loaded(i) == initConfig(variant, i, file).V

\* What a command that got its answer reports: the error of the client
\* method, or its success output.
Reported(r, resp) ==
    [err |-> r.err, result |-> r.result,
     printed |-> IF r.err.kind = "none" THEN "success" ELSE "",
     value |-> "", resp |-> resp, pages |-> << >>]

\* Go's integer division, which truncates toward zero.
GoDiv(a, b) ==
    IF (a >= 0) = (b > 0) THEN a \div b
    ELSE -((IF a >= 0 THEN a ELSE -a) \div (IF b > 0 THEN b ELSE -b))

\* (resp.Data.Total+resp.Data.Limit-1)/resp.Data.Limit
pageCount(total, limit) == GoDiv(total + limit - 1, limit)

\* The tail of the list commands that print the pagination line: nothing but
\* a notice without items; the division by a zero limit ends the process
\* with a run-time panic after the entries were printed.
listReport(r, resp) ==
    IF r.err.kind # "none" THEN Reported(r, resp)
    ELSE IF resp.list.items = 0
    THEN [Reported(r, resp) EXCEPT !.printed = "none-found"]
    ELSE IF resp.list.limit = 0
    THEN [Reported(r, resp) EXCEPT !.err = Err("panic"), !.printed = "entries"]
    ELSE [Reported(r, resp) EXCEPT
            !.pages = <<pageCount(resp.list.total, resp.list.limit)>>]

IsList(i) == i.cmd \in {"list_pastes", "list_urls"}

\* pkg/client: the tail of Upload, Shorten, List and RequestAPIKey.
pkg_response(resp) ==
    IF resp.transport THEN Returned(Err("transport"), NoResult)
    ELSE IF resp.status # 200
    THEN Returned([kind |-> "status", code |-> resp.status, body |-> resp.body], NoResult)
    ELSE IF Decode(resp.body).err THEN Returned(Err("decode"), NoResult)
    ELSE Returned(NoErr, Decode(resp.body).result)

\* pkg/client: the tail of Delete, which returns after the status check.
pkg_DeleteResponse(resp) ==
    IF resp.transport THEN Returned(Err("transport"), NoResult)
    ELSE IF resp.status # 200
    THEN Returned([kind |-> "status", code |-> resp.status, body |-> resp.body], NoResult)
    ELSE Returned(NoErr, NoResult)

\* The rest of a command once the transport has answered.
pkg_complete(i, resp) ==
    IF IsList(i) THEN listReport(pkg_response(resp), resp)
    ELSE Reported(IF i.cmd = "delete" THEN pkg_DeleteResponse(resp)
                  ELSE pkg_response(resp),
                  resp)

handle_complete(i, resp) ==
    IF IsList(i) THEN listReport(doRequest(resp, TRUE), resp)
    ELSE Reported(doRequest(resp, TRUE), resp)

\* internal/handlers: a decoded result without success is an error.
paste69_complete(i, resp) ==
    LET r == paste69Response(resp)
    IN  IF r.err.kind = "none" /\ ~r.result.success
        THEN Reported(Returned(Err("not-success"), r.result), resp)
        ELSE Reported(r, resp)

viper_complete(i, resp) == Reported(viperResponse(resp), resp)

Complete(v, i, resp) ==
    CASE v = "pkgclient" -> pkg_complete(i, resp)
      [] v = "handlers" -> handle_complete(i, resp)
      [] v = "paste69" -> paste69_complete(i, resp)
      [] v = "viperclient" -> viper_complete(i, resp)

-----------------------------------------------------------------------------
(* The state machine.                                                      *)

Init ==
    /\ variant \in Variants
    /\ file = NoFile
    /\ pc = "idle"
    /\ inv = NoInv
    /\ viper = UnloadedViper
    /\ client = NoClient
    /\ reqs = << >>
    /\ outcome = NoOutcome
    /\ procs = << >>

\* The process that was started with command line i has come to st.
Started(i, st) ==
    /\ pc = "idle"
    /\ inv' = i
    /\ pc' = st.pc
    /\ viper' = st.viper
    /\ client' = st.client
    /\ reqs' = st.reqs
    /\ outcome' = st.outcome
    /\ file' = st.file
    /\ UNCHANGED <<variant, procs>>

Upload ==
    /\ "upload" \in Commands(variant)
    /\ \E i \in Invocations(variant, "upload") :
         Started(i, Execute(variant, i, file, upload(variant, i, Loaded(i), file)))

Shorten ==
    /\ "shorten" \in Commands(variant)
    /\ \E i \in Invocations(variant, "shorten") :
         Started(i, Execute(variant, i, file, shorten(variant, i, Loaded(i), file)))

ListPastes ==
    /\ "list_pastes" \in Commands(variant)
    /\ \E i \in Invocations(variant, "list_pastes") :
         Started(i, Execute(variant, i, file, listPastes(variant, i, Loaded(i), file)))

ListUrls ==
    /\ "list_urls" \in Commands(variant)
    /\ \E i \in Invocations(variant, "list_urls") :
         Started(i, Execute(variant, i, file, listUrls(variant, i, Loaded(i), file)))

Delete ==
    /\ "delete" \in Commands(variant)
    /\ \E i \in Invocations(variant, "delete") :
         Started(i, Execute(variant, i, file, delete(variant, i, Loaded(i), file)))

KeyRequest ==
    /\ "key_request" \in Commands(variant)
    /\ \E i \in Invocations(variant, "key_request") :
         Started(i, Execute(variant, i, file, keyRequest(variant, i, Loaded(i), file)))

ConfigSet ==
    /\ "config_set" \in Commands(variant)
    /\ \E i \in Invocations(variant, "config_set") :
         Started(i, Execute(variant, i, file, configSet(variant, i, Loaded(i), file)))

ConfigGet ==
    /\ "config_get" \in Commands(variant)
    /\ \E i \in Invocations(variant, "config_get") :
         Started(i, Execute(variant, i, file, configGet(variant, i, Loaded(i), file)))

ConfigUnset ==
    /\ "config_unset" \in Commands(variant)
    /\ \E i \in Invocations(variant, "config_unset") :
         Started(i, Execute(variant, i, file, handleConfigUnset(i, Loaded(i), file)))

\* The transport answers the request and the command runs to its end.
Respond ==
    /\ pc = "sent"
    /\ \E resp \in Responses(reqs[1]) : outcome' = Complete(variant, inv, resp)
    /\ pc' = "done"
    /\ UNCHANGED <<variant, file, inv, viper, client, reqs, procs>>

\* The process exits; only the configuration file outlives it.
Exit ==
    /\ pc = "done"
    /\ pc' = "idle"
    /\ inv' = NoInv
    /\ viper' = UnloadedViper
    /\ client' = NoClient
    /\ reqs' = << >>
    /\ outcome' = NoOutcome
    /\ UNCHANGED <<variant, file, procs>>

Next ==
    \/ Upload
    \/ Shorten
    \/ ListPastes
    \/ ListUrls
    \/ Delete
    \/ KeyRequest
    \/ ConfigSet
    \/ ConfigGet
    \/ ConfigUnset
    \/ Respond
    \/ Exit

Spec == Init /\ [][Next]_vars

-----------------------------------------------------------------------------
(* Two config set processes that run at the same time on one file.  Each   *)
(* process reads the file in initConfig and writes it in its handler; the  *)
(* steps of the two interleave freely.                                     *)

\* The command lines of the concurrent processes.
ConcurrentSets(v) ==
    {i \in Invocations(v, "config_set") : i.flagKey = Nil /\ i.envKey \in {Nil, "E"}}

\* The files one earlier config set can have left.
EarlierFiles(v) ==
    {NoFile} \cup
    {Execute(v, i, NoFile, configSet(v, i, initConfig(v, i, NoFile).V, NoFile)).file :
        i \in ConcurrentSets(v)}

Started2(i) == [pc |-> "start", inv |-> i, viper |-> UnloadedViper, outcome |-> NoOutcome]

InitConcurrent ==
    /\ variant \in Variants
    /\ file \in EarlierFiles(variant)
    /\ pc = "idle"
    /\ inv = NoInv
    /\ viper = UnloadedViper
    /\ client = NoClient
    /\ reqs = << >>
    /\ outcome = NoOutcome
    /\ \E i1, i2 \in ConcurrentSets(variant) :
          i1.key # i2.key /\ procs = <<Started2(i1), Started2(i2)>>

\* A process runs initConfig, which reads the file as it is now, and the
\* root command's pre-run check where the build has one.
SetLoad(p) ==
    LET i == procs[p].inv
        init == initConfig(variant, i, file)
    IN  /\ procs[p].pc = "start"
        /\ procs' =
              [procs EXCEPT
                 ![p].viper = init.V,
                 ![p].pc = IF init.fatal \/ (HasPersistentPreRun(variant)
                                              /\ ~validateAPIKey(init.V))
                           THEN "done" ELSE "loaded",
                 ![p].outcome = IF init.fatal THEN Failed(Err("read-config"))
                                ELSE IF HasPersistentPreRun(variant)
                                        /\ ~validateAPIKey(init.V)
                                THEN Failed(Err("apikey"))
                                ELSE NoOutcome]
        /\ UNCHANGED <<variant, file, pc, inv, viper, client, reqs, outcome>>

\* The process runs its config set handler on the viper it loaded: Set, then
\* the write of the whole configuration over the file as it is now.
SetWrite(p) ==
    LET i == procs[p].inv
        st == configSet(variant, i, procs[p].viper, file)
    IN  /\ procs[p].pc = "loaded"
        /\ file' = st.file
        /\ procs' = [procs EXCEPT ![p].pc = "done", ![p].viper = st.viper,
                                  ![p].outcome = st.outcome]
        /\ UNCHANGED <<variant, pc, inv, viper, client, reqs, outcome>>

NextConcurrent ==
    \/ \E p \in {1, 2} : SetLoad(p)
    \/ \E p \in {1, 2} : SetWrite(p)

SpecConcurrent == InitConcurrent /\ [][NextConcurrent]_vars

TypeOK ==
    /\ variant \in Variants
    /\ pc \in {"idle", "sent", "done"}
    /\ file.exists \in BOOLEAN
    /\ Len(reqs) <= 1

-----------------------------------------------------------------------------
(* Properties.                                                             *)

\* The api_key the running process resolves.
ResolvedKey == GetString(viper, "api_key")

\* What a later process, started without --api-key and without OX45_API_KEY,
\* resolves for a key from the file as it is now.
LaterViper == initConfig(variant, [NoInv EXCEPT !.cmd = "config_get"], file).V

Running(cmd) == pc # "idle" /\ inv.cmd = cmd

\* The expires value a request carries, in the query or in the body.
SentExpires(req) ==
    IF req.query["expires"] # Nil THEN req.query["expires"] ELSE req.fields["expires"]

\* C1: an upload with the private flag, while the resolved api_key is empty,
\* returns an error and hands no request to the transport, for every file
\* argument and every expires value.
C1_PrivateUploadNeedsKey ==
    (Running("upload") /\ inv.private /\ ResolvedKey = "")
        => (pc = "done" /\ outcome.err.kind # "none" /\ reqs = << >>)

\* C1 happens: a private upload of an existing file with a valid expiry was
\* refused for the missing key.
C1_Witness ==
    /\ Running("upload") /\ inv.private /\ ResolvedKey = ""
    /\ inv.arg = "dir/a.txt" /\ inv.expires = "24h"
    /\ pc = "done" /\ outcome.err.kind = "private-apikey" /\ reqs = << >>

KeyGated == {"shorten", "list_pastes", "list_urls", "delete"}

\* C2: shorten, list pastes, list urls and delete with an empty resolved
\* api_key end in the API-key-required error without a request; with a
\* non-empty resolved api_key the check passes and the request is issued.
C2_KeyGate ==
    (pc # "idle" /\ inv.cmd \in KeyGated /\ outcome.err.kind # "read-config")
        => IF ResolvedKey = ""
           THEN pc = "done" /\ outcome.err.kind = "apikey" /\ reqs = << >>
           ELSE Len(reqs) = 1 /\ outcome.err.kind # "apikey"

\* C2 happens: a delete without a key was refused.
C2_Witness ==
    /\ Running("delete") /\ ResolvedKey = ""
    /\ pc = "done" /\ outcome.err.kind = "apikey" /\ reqs = << >>

\* C3: with no API key in any source (no flag, no environment variable, no
\* value in the file), config set api_key K is not rejected by the API-key
\* check, and a following invocation resolves api_key to K.
C3_SetKeyFromNothing ==
    (/\ pc = "done" /\ inv.cmd = "config_set" /\ inv.key = "api_key"
     /\ inv.flagKey = Nil /\ inv.envKey = Nil /\ viper.config["api_key"] = Nil
     /\ outcome.err.kind # "read-config")
        => /\ outcome.err.kind # "apikey"
           /\ outcome.err.kind = "none" => GetString(LaterViper, "api_key") = inv.value

\* The api_key value of the configuration file, Nil without one.
FileKey == IF file.exists THEN file.data["api_key"] ELSE Nil

\* A process that resolved its configuration and does not write it.
Resolving ==
    /\ pc # "idle"
    /\ outcome.err.kind # "read-config"
    /\ inv.cmd \notin {"config_set", "config_unset"}

Authenticated == {"upload", "shorten", "list_pastes", "list_urls", "delete"}

\* C5: the request of upload, shorten, list and delete carries
\* Authorization: Bearer <api_key> exactly when the client's API key is not
\* empty, and no credential header when it is empty.
C5_BearerIffKey ==
    (pc # "idle" /\ inv.cmd \in Authenticated) =>
        \A k \in 1..Len(reqs) :
            IF client.APIKey # ""
            THEN reqs[k].auth = Bearer(client.APIKey)
            ELSE reqs[k].auth = NoAuth /\ reqs[k].xkey = Nil

\* The transport answered with a status.
Answered == pc = "done" /\ ~outcome.resp.transport /\ outcome.resp.status # 0

\* C6: a response with a non-success status makes the operation return an
\* error that holds the status code and the response body, and no typed
\* result.
C6_StatusError ==
    (Answered /\ outcome.resp.status # 200) =>
        /\ outcome.err.kind = "status"
        /\ outcome.err.code = outcome.resp.status
        /\ outcome.err.body = outcome.resp.body
        /\ outcome.result = NoResult

\* C7: a success status is always followed by the decode of the body into the
\* typed result, and a body that does not decode gives the decode error,
\* which is neither the transport error nor the status error.
C7_DecodeAfterSuccess ==
    (Answered /\ outcome.resp.status = 200) =>
        IF Decode(outcome.resp.body).err
        THEN outcome.err.kind = "decode"
        ELSE outcome.result.decoded /\ outcome.result = Decode(outcome.resp.body).result

\* C8: upload with expires "129d" fails before any request when no API key
\* is configured, and with an API key it is accepted and the request issued.
C8_Cap129d ==
    (Running("upload") /\ inv.expires = "129d") =>
        IF ResolvedKey = ""
        THEN pc = "done" /\ outcome.err.kind # "none" /\ reqs = << >>
        ELSE (inv.arg = Nil \/ FileExists(inv.arg)) => Len(reqs) = 1

\* C9: upload with --expires "24h" or "7d" passes the local checks and the
\* one upload request carries the value unchanged.
C9_DocumentedFormats ==
    (/\ Running("upload") /\ inv.expires \in {"24h", "7d"}
     /\ inv.arg = Nil \/ FileExists(inv.arg)
     /\ inv.private \/ HasPersistentPreRun(variant) => ResolvedKey # "")
        => Len(reqs) = 1 /\ SentExpires(reqs[1]) = inv.expires

\* C10: config set default_expiry 7d followed by get gives "7d"; unset
\* followed by get reports not-found, in the same process and in a later one
\* that reloads the written file, also when the key was in the file before
\* or has a built-in default.
C10_RoundTrip ==
    /\ (pc = "done" /\ inv.cmd = "config_set" /\ inv.key = "default_expiry"
        /\ outcome.printed = "set")
          => Get(viper, inv.key) = inv.value /\ Get(LaterViper, inv.key) = inv.value
    /\ (pc = "done" /\ inv.cmd = "config_unset" /\ inv.key = "default_expiry"
        /\ outcome.err.kind = "none")
          => Get(viper, inv.key) = Nil /\ Get(LaterViper, inv.key) = Nil

\* C11: config set started while no configuration file exists (found by
\* convention or named by --config) and let through by the API-key check
\* creates the file with key = value and prints the success message; the
\* success message is never printed without the file holding the value.
C11_SetCreatesFile ==
    [][(pc = "idle" /\ pc' = "done" /\ inv'.cmd = "config_set")
          => /\ (~file.exists /\ outcome'.err.kind # "apikey")
                    => /\ file'.exists
                       /\ file'.data[inv'.key] = inv'.value
                       /\ outcome'.printed = "set"
             /\ outcome'.printed = "set"
                    => file'.exists /\ file'.data[inv'.key] = inv'.value]_vars

Ceil(total, limit) == CHOOSE n \in 0..total : n * limit >= total /\ (n - 1) * limit < total

\* C13: whenever a list command shows a page count for a result with
\* total >= 0 and limit >= 1, the count is ceil(total / limit), and it is 1
\* when total = 0.
C13_PageCount ==
    (/\ pc = "done" /\ IsList(inv) /\ outcome.pages # << >>
     /\ outcome.resp.list.total >= 0 /\ outcome.resp.list.limit >= 1)
        => outcome.pages[1] =
              IF outcome.resp.list.total = 0 THEN 1
              ELSE Ceil(outcome.resp.list.total, outcome.resp.list.limit)

\* The text of a positive integer.
PositiveText(t) == \E pl \in ListPaging : \E n \in {pl[1], pl[2]} : n > 0 /\ Itoa(n) = t

\* C14: a page, limit or per_page parameter of a list request that is
\* addressed to a server is a positive integer whatever the --page and --limit values are, and with the flag
\* defaults the request carries page 1, limit 10 and sort by creation time.
C14_PositivePaging ==
    (pc # "idle" /\ IsList(inv) /\ Len(reqs) = 1 /\ reqs[1].origin # "")
        => LET q == reqs[1].query
               limit == IF q["limit"] # Nil THEN q["limit"] ELSE q["per_page"]
           IN  /\ \A n \in {"page", "limit", "per_page"} :
                     q[n] # Nil => PositiveText(q[n])
               /\ (inv.page = 1 /\ inv.limit = 10)
                     => q["page"] = "1" /\ limit = "10" /\ q["sort"] = "created_at"

\* The endpoint a request goes to: the last piece of its path.
Endpoint(req) == req.path[Len(req.path)]

\* C15: the request of list pastes goes to the pastes listing endpoint and
\* the request of list urls to the urls listing endpoint, never the other.
C15_KindSelectsEndpoint ==
    (pc # "idle" /\ IsList(inv) /\ Len(reqs) = 1)
        => Endpoint(reqs[1]) = IF inv.cmd = "list_pastes" THEN "/pastes" ELSE "/urls"

\* The running command line with the API key taken out of flag, environment
\* and configuration file, and the request key request sends for it.
Keyless(i) == [i EXCEPT !.flagKey = Nil, !.envKey = Nil]

KeylessFile == [file EXCEPT !.data["api_key"] = Nil]

KeylessRequests ==
    keyRequest(variant, Keyless(inv),
               initConfig(variant, Keyless(inv), KeylessFile).V, KeylessFile).reqs

\* C16: the request of key request carries no Authorization and no API-key
\* header, and is the request the same command line sends when no API key is
\* configured anywhere.
C16_KeyRequestUnauthenticated ==
    (pc # "idle" /\ inv.cmd = "key_request" /\ Len(reqs) = 1)
        => /\ reqs[1].auth = NoAuth
           /\ reqs[1].xkey = Nil
           /\ reqs = KeylessRequests

\* A key request is in flight while an API key is configured.
C16_Witness ==
    /\ pc = "sent" /\ inv.cmd = "key_request" /\ Len(reqs) = 1
    /\ ResolvedKey # ""
    /\ file.data["api_key"] # Nil

\* The commands that talk to the service.
Remote == {"upload", "shorten", "list_pastes", "list_urls", "delete", "key_request"}

\* C17: a command that talks to the service either fails a local check or
\* hands exactly one request to the transport; the request is never sent
\* again, and a transport error, a status other than 200 or a body that
\* the command fails to decode ends the command with an error.
C17_OneRequestNoRetry ==
    (pc # "idle" /\ inv.cmd \in Remote)
        => /\ Len(reqs) <= 1
           /\ pc = "sent" => Len(reqs) = 1
           /\ (pc = "done" /\ reqs = << >>) => outcome.err.kind # "none"
           /\ (pc = "done" /\ Len(reqs) = 1
               /\ \/ outcome.resp.transport
                  \/ outcome.resp.status # 200
                  \/ /\ Decode(outcome.resp.body).err
                     \* Client.Delete of pkg/client reads no body
                     /\ ~(variant = "pkgclient" /\ inv.cmd = "delete"))
                 => outcome.err.kind # "none"

\* The expires value is no duration, or is longer than the cap that goes
\* with the resolved API key.
BadExpires(e) ==
    \/ ParseDuration(e).err
    \/ ExceedsDays(ParseDuration(e),
                   IF ResolvedKey # "" THEN MaxDaysWithKey ELSE MaxDaysNoKey)

\* C18: upload and shorten, given an --expires value that does not parse as
\* a duration or exceeds the cap, end in an error before any request.
C18_ExpiresValidated ==
    (/\ pc # "idle" /\ inv.cmd \in {"upload", "shorten"}
     /\ inv.expires # Nil /\ BadExpires(inv.expires))
        => pc = "done" /\ reqs = << >> /\ outcome.err.kind # "none"

\* The shorten arguments that are URLs: the ones with a scheme and a host.
WellFormedURLs == {"https://example.com"}

\* The target a shorten request carries, in its body or in its query.
SentTarget(req) ==
    IF req.fields["url"] # Nil THEN req.fields["url"] ELSE req.query["url"]

\* C19: every shorten request carries a target that is a URL, and shorten
\* with an argument that is no URL ends in an error without a request.
C19_ShortenNeedsURL ==
    (pc # "idle" /\ inv.cmd = "shorten")
        => /\ \A n \in 1..Len(reqs) : SentTarget(reqs[n]) \in WellFormedURLs
           /\ inv.arg \notin WellFormedURLs
                 => pc = "done" /\ reqs = << >> /\ outcome.err.kind # "none"

\* No source gives the key a value: not the file f, not a default of the
\* build, and for api_key neither the flag nor a non-empty OX45_API_KEY.
NotSet(i, f) ==
    /\ f.data[i.key] = Nil
    /\ Defaults(variant)[i.key] = Nil
    /\ i.key = "api_key" => i.flagKey = Nil /\ i.envKey \in {Nil, ""}

\* C20: config unset of a key that is not set, in a process that read its
\* configuration, prints the not-found message, leaves the configuration
\* file and the in-memory configuration as they were and ends without error.
C20_UnsetOfUnsetKey ==
    [][(/\ pc = "idle" /\ pc' = "done" /\ inv'.cmd = "config_unset"
        /\ outcome'.err.kind # "read-config"
        /\ NotSet(inv', file))
          => /\ outcome'.printed = "not-found"
             /\ outcome'.err.kind = "none"
             /\ file' = file
             /\ viper' = initConfig(variant, inv', file).V]_vars

\* config unset of a key that is not set has run while a configuration file
\* with other keys exists.
C20_Witness ==
    /\ pc = "done" /\ inv.cmd = "config_unset"
    /\ NotSet(inv, file) /\ file.exists
    /\ outcome.printed = "not-found"

\* The api_url the running process resolves; the client that reads viper per
\* request falls back to the built-in URL.
ResolvedURL ==
    IF GetString(viper, "api_url") = "" THEN DefaultURL ELSE GetString(viper, "api_url")

\* C21: whenever a command has handed a request to the transport, the base
\* URL and the API key of the client that built it are the values resolved
\* from the loaded configuration (flag, environment, file, default), also for
\* the client constructed at package initialisation.
C21_ClientAfterLoad ==
    (pc # "idle" /\ Len(reqs) = 1 /\ inv.cmd # "key_request")
        => /\ client.BaseURL = ResolvedURL
           /\ client.APIKey = ResolvedKey
           /\ reqs[1].origin = urlParse(ResolvedURL).origin

\* C22: every request goes to the URL formed by the client's base URL
\* followed by the operation's path: scheme and host are those of the base
\* URL, and the path starts with the path of the base URL.
C22_BaseThenPath ==
    (pc # "idle" /\ Len(reqs) = 1)
        => /\ reqs[1].origin = urlParse(client.BaseURL).origin
           /\ reqs[1].path[1] = urlParse(client.BaseURL).path

\* The fields that are optional in a request, and the texts of an empty,
\* false or zero value.
OptionalFields == {"expires", "title", "ext", "sort", "private", "page", "limit", "per_page"}

EmptyTexts == {"", "false", "0"}

\* C23: a request of upload, shorten or list that reaches the transport
\* carries no optional field with an empty, false or zero value, neither in
\* the query string nor in the body.
C23_NoEmptyOptional ==
    (/\ pc # "idle" /\ Len(reqs) = 1
     /\ inv.cmd \in {"upload", "shorten", "list_pastes", "list_urls"})
        => \A n \in OptionalFields :
              reqs[1].query[n] \notin EmptyTexts /\ reqs[1].fields[n] \notin EmptyTexts

\* The request bodies that are complete in memory when the request is issued.
InMemoryBodies == {"bytes", "multipart"}

\* C24: the request of an upload carries a body that was read into memory
\* before it was issued, never one streamed from the file or from standard
\* input; an upload whose input cannot be read ends with an error and
\* without a request.
C24_BodyReadBeforeRequest ==
    Running("upload") =>
        /\ \A k \in 1..Len(reqs) : reqs[k].bodyKind \in InMemoryBodies
        /\ (inv.arg # Nil /\ ~FileExists(inv.arg))
              => pc = "done" /\ outcome.err.kind # "none" /\ reqs = << >>

\* The builds whose --expires flag takes its default from viper.
ExpiresFromViper == {"pkgclient", "handlers"}

\* C25: the request of an upload or shorten started without --expires carries
\* the default_expiry value that the loaded configuration resolves (the value
\* of the config file, or the built-in default), and no expires field only
\* when that value is empty.
C25_DefaultExpiryUsed ==
    (/\ variant \in ExpiresFromViper
     /\ pc # "idle" /\ inv.cmd \in {"upload", "shorten"}
     /\ inv.expires = Nil /\ Len(reqs) = 1)
        => SentExpires(reqs[1]) = Opt(GetString(viper, "default_expiry"))

\* The value the configuration file f stores for key k, Nil without one.
Stored(f, k) == IF f.exists THEN f.data[k] ELSE Nil

\* C26: a config set that wrote the configuration changed the stored value
\* of its own key only: every other key has in the file after the write the
\* value it had in the file before, so that an api_key given by flag or
\* environment and the built-in defaults do not get into the file.
C26_SetWritesOneKey ==
    [][(/\ pc = "idle" /\ pc' = "done" /\ inv'.cmd = "config_set"
        /\ outcome'.printed = "set")
          => \A k \in Keys \ {inv'.key} : Stored(file', k) = Stored(file, k)]_vars

\* The transport answered 200 with a body that decodes with success = false.
Unsuccessful200 ==
    /\ Answered /\ outcome.resp.status = 200
    /\ ~Decode(outcome.resp.body).err
    /\ ~Decode(outcome.resp.body).result.success

\* C27: upload, shorten, list and delete that got a 200 response whose body
\* decodes with success = false return an error and print no success output.
C27_SuccessFieldChecked ==
    (Unsuccessful200 /\ inv.cmd \in Authenticated)
        => outcome.err.kind # "none" /\ outcome.printed = ""

\* C28: a list command whose response decoded and holds at least one item
\* runs to its end without a run-time failure, also when the limit field of
\* the response is 0.
C28_ListNeverPanics ==
    (/\ Answered /\ IsList(inv) /\ outcome.resp.status = 200
     /\ ~Decode(outcome.resp.body).err /\ outcome.resp.list.items >= 1)
        => outcome.err.kind # "panic"

\* C30: an answered operation is not refused for its status exactly when the
\* status code is 200; every other status, 201 included, gives the status
\* error and no typed result.
C30_Only200Succeeds ==
    Answered =>
        IF outcome.resp.status = 200
        THEN outcome.err.kind # "status"
        ELSE outcome.err.kind = "status" /\ outcome.result = NoResult

\* Both concurrent config set processes have written and printed success.
BothSet == \A p \in {1, 2} : procs[p].pc = "done" /\ procs[p].outcome.printed = "set"

\* C29: after two concurrent config set processes with distinct keys have
\* both finished with success, the file holds the value of each: no
\* interleaving of their loads and writes loses one of the updates.
C29_NoLostUpdate ==
    (Len(procs) = 2 /\ BothSet)
        => \A p \in {1, 2} : Stored(file, procs[p].inv.key) = procs[p].inv.value

====
